---- MODULE Spec2Model ----
(***************************************************************************)
(* A model of the persistent vector and its transient (builder) variant    *)
(* of src/persistent.go, and of the persistent list of src/lists/list.go.  *)
(* The Go heap is modelled explicitly: trie nodes                          *)
(* live in `heap`, the backing arrays of Go slices live in `arrs`, and a   *)
(* slice is a pair (array, len) whose capacity is the length of its        *)
(* backing array, so that aliasing between tails, leaves and stale         *)
(* handles is part of the state.                                           *)
(***************************************************************************)
EXTENDS Integers, Sequences, FiniteSets, TLC

(* ---------------------------------------------------------------- bounds *)

\* Width of one index digit.  The source sets 5 (W = 32); the model keeps the
\* same code with a narrower digit so that tries of depth 2 are reachable.
nodeBits == 1

\* New(vals...) is applied to vals = <<1, ..., n>> for every n in 0..MaxLen.
MaxLen == 8

\* Values passed to Conj and Assoc are drawn from 0..MaxVal.
MaxVal == 0

\* Number of calls that return a Vector or a TransientVector.
MaxOps == 5

\* Size of the heap: the nodes and the backing arrays it has room for.
MaxNodes == 10
MaxArrs == 9

\* Number of calls of New among them.
MaxNew == 1

\* Number of TransientVectors built from the zero value, of at most
\* MaxZeroLen values each.
MaxZero == 2
MaxZeroLen == 4

\* lists.New(vals...) is applied to every sequence of at most MaxListLen
\* values from 1..MaxListVal; the program holds at most MaxLists lists.
MaxListLen == 3
MaxListVal == 2
MaxLists == 3

\* The growth of depth is followed up to vectors of MaxShapeCount values.
MaxShapeCount == 100

(* ------------------------------------------------------------- constants *)

\* const nodeBits = 5
sourceNodeBits == 5

RECURSIVE Pow2(_)
Pow2(n) == IF n = 0 THEN 1 ELSE 2 * Pow2(n - 1)

nodeWidth == Pow2(nodeBits)

\* The zero value of the element type T.
Zero == 0

\* var persistent *id = nil
persistent == 0

Vals == 0 .. MaxVal

NilSlice == [arr |-> 0, len |-> 0]

(* ------------------------------------------------------------ addressing *)

indexAt(level, i) == (i \div Pow2(level * nodeBits)) % nodeWidth

indexInTail(index, count, tail) == index >= (count - tail.len)

\* A depth test that never asks for a new root.
isDeepEnoughToAppend_Always(depth, count) == TRUE

isDeepEnoughToAppend(depth, count) == (count \div Pow2(nodeBits)) <= Pow2(depth)

\* The same test for a digit of `bits` bits.
isDeepEnoughToAppendAt(bits, depth, count) == (count \div Pow2(bits)) <= Pow2(depth)

(* ---------------------------------------------------------------- memory *)
(* A machine record m threads the Go heap through one call:                *)
(*   heap : sequence of nodes [id, nodes, values]; a node reference is an  *)
(*          index into heap, 0 is nil; nodes = <<>> is the nil slice       *)
(*   arrs : sequence of backing arrays of []T slices                       *)
(*   ids  : number of ids allocated by new(id) so far                      *)
(*   w    : references of the nodes whose child slot was written           *)
(*   wa   : backing arrays of which a cell was written                     *)
(*   ws   : the child slots written, as pairs << node, slot >>              *)
(*   wc   : the cells written, as pairs << array, position >>               *)
(*   err  : "none", or the panic that ended the call                       *)
(*   pv   : what the panic value carries: << >>, or for the text            *)
(*          "index out of range [i] with length n" the pair << i, n >>      *)
(***************************************************************************)

Panic(m, e) == IF m.err = "none" THEN [m EXCEPT !.err = e] ELSE m

\* panic(fmt.Sprintf("index out of range [%d] with length %d", index, count))
OutOfRange(index, count) == << index, count >>

\* A panic that carries the count where the index belongs and the reverse.
PanicOutOfRange_Swapped(m, index, count) ==
    IF m.err = "none"
    THEN [m EXCEPT !.err = "IndexOutOfRange", !.pv = OutOfRange(count, index)]
    ELSE m

PanicOutOfRange(m, index, count) ==
    IF m.err = "none"
    THEN [m EXCEPT !.err = "IndexOutOfRange", !.pv = OutOfRange(index, count)]
    ELSE m

Cap(m, s) == IF s.arr = 0 THEN 0 ELSE Len(m.arrs[s.arr])

Cells(m, s) == IF s.arr = 0 THEN << >> ELSE SubSeq(m.arrs[s.arr], 1, s.len)

\* make([]T, n) followed by copy: a fresh backing array holding cells.
\* A zero-length make allocates no array.
MakeSlice(m, cells) ==
    IF cells = << >>
    THEN [m |-> m, s |-> NilSlice]
    ELSE [m |-> [m EXCEPT !.arrs = Append(@, cells)],
          s |-> [arr |-> Len(m.arrs) + 1, len |-> Len(cells)]]

\* An assignment that fills the whole slice with val.
SetCell_WholeSlice(m, s, pos, val) ==
    IF m.err # "none" THEN m
    ELSE IF pos < 0 \/ pos >= s.len THEN Panic(m, "runtime")
    ELSE [m EXCEPT !.arrs[s.arr] = [k \in 1 .. Len(@) |-> val], !.wa = @ \cup {s.arr}]

\* s[pos] = val, with Go's bounds check against len(s).
SetCell(m, s, pos, val) ==
    IF m.err # "none" THEN m
    ELSE IF pos < 0 \/ pos >= s.len THEN Panic(m, "runtime")
    ELSE [m EXCEPT !.arrs[s.arr][pos + 1] = val, !.wa = @ \cup {s.arr},
                   !.wc = @ \cup {<< s.arr, pos >>}]

\* node.nodes[slot] = child
SetChild(m, ref, slot, child) ==
    IF m.err # "none" THEN m
    ELSE IF ref = 0 \/ slot >= Len(m.heap[ref].nodes) THEN Panic(m, "runtime")
    ELSE [m EXCEPT !.heap[ref].nodes[slot + 1] = child, !.w = @ \cup {ref},
                   !.ws = @ \cup {<< ref, slot >>}]

AllocNode(m, n) ==
    [m |-> [m EXCEPT !.heap = Append(@, n)], ref |-> Len(m.heap) + 1]

\* The capacity Go's append gives a slice that has to grow (runtime growslice,
\* capacities below 256): the larger of the needed length and twice the old.
GrowCap(old, needed) == IF 2 * old > needed THEN 2 * old ELSE needed

ZeroCells(n) == [k \in 1 .. n |-> Zero]

\* An append that overwrites the last element instead of adding one.
append_OverLast(m, s, val) ==
    IF s.len = 0
    THEN [m |-> [m EXCEPT !.arrs = Append(@, << val >>)],
          s |-> [arr |-> Len(m.arrs) + 1, len |-> 1]]
    ELSE [m |-> [m EXCEPT !.arrs[s.arr][s.len] = val, !.wa = @ \cup {s.arr}],
          s |-> s]

\* append(s, val): in place when the backing array has spare capacity,
\* otherwise into a fresh, larger array.
append(m, s, val) ==
    IF s.len < Cap(m, s)
    THEN [m |-> [m EXCEPT !.arrs[s.arr][s.len + 1] = val, !.wa = @ \cup {s.arr},
                          !.wc = @ \cup {<< s.arr, s.len >>}],
          s |-> [arr |-> s.arr, len |-> s.len + 1]]
    ELSE LET newcap == GrowCap(Cap(m, s), s.len + 1)
             cells  == Cells(m, s) \o << val >> \o ZeroCells(newcap - s.len - 1)
         IN  [m |-> [m EXCEPT !.arrs = Append(@, cells)],
              s |-> [arr |-> Len(m.arrs) + 1, len |-> s.len + 1]]

\* make([]T, 0, nodeWidth)
MakeTail(m) ==
    [m |-> [m EXCEPT !.arrs = Append(@, ZeroCells(nodeWidth))],
     s |-> [arr |-> Len(m.arrs) + 1, len |-> 0]]

\* A copy of the tail that leaves out its last value.
cloneTail_DropsLast(m, tail) ==
    MakeSlice(m, IF tail.len = 0 THEN << >> ELSE SubSeq(Cells(m, tail), 1, tail.len - 1))

cloneTail(m, tail) == MakeSlice(m, Cells(m, tail))

\* A newNode that also makes a values array.
newNode_WithValues(m, id) ==
    LET vs == MakeSlice(m, ZeroCells(nodeWidth))
    IN  AllocNode(vs.m, [id |-> id, nodes |-> [k \in 1 .. nodeWidth |-> 0], values |-> vs.s])

newNode(m, id) ==
    AllocNode(m, [id |-> id, nodes |-> [k \in 1 .. nodeWidth |-> 0], values |-> NilSlice])

\* A leaf that is made without the values.
newLeaf_NoValues(m, id, values) ==
    AllocNode(m, [id |-> id, nodes |-> << >>, values |-> NilSlice])

\* values[:] is the same slice: the leaf shares the backing array.
newLeaf(m, id, values) ==
    AllocNode(m, [id |-> id, nodes |-> << >>, values |-> values])

\* A clone that shares the values array of the original.
cloneNode_SharedValues(m, id, original) ==
    IF original = 0
    THEN [m |-> m, ref |-> 0]
    ELSE AllocNode(m, [id |-> id, nodes |-> m.heap[original].nodes,
                       values |-> m.heap[original].values])

cloneNode(m, id, original) ==
    IF original = 0
    THEN [m |-> m, ref |-> 0]
    ELSE LET o  == m.heap[original]
             cv == IF o.values.arr # 0 THEN MakeSlice(m, Cells(m, o.values))
                   ELSE [m |-> m, s |-> NilSlice]
         IN  AllocNode(cv.m, [id |-> id, nodes |-> o.nodes, values |-> cv.s])

(* ----------------------------------------------------------------- reads *)

\* The outcome of a read: the value returned, or the panic and what it carries.
Ok(x) == [err |-> "none", val |-> x, pv |-> << >>]
Fail(e) == [err |-> e, val |-> Zero, pv |-> << >>]
FailOutOfRange(index, count) ==
    [err |-> "IndexOutOfRange", val |-> Zero, pv |-> OutOfRange(index, count)]

RECURSIVE Descend(_, _, _, _)
\* The loop of findValues: the node reached from walk after `level` levels,
\* or -1 when the walk dereferences nil or indexes a nil nodes slice.
Descend(heap, walk, level, index) ==
    IF level = 0 THEN walk
    ELSE IF walk = 0 \/ heap[walk].nodes = << >> THEN -1
    ELSE Descend(heap, heap[walk].nodes[indexAt(level, index) + 1], level - 1, index)

\* A findValues that moves an index outside [0, count) to the nearest end.
findValues_Clamped(heap, count, depth, root, tail, index) ==
    LET ix == IF index < 0 THEN 0 ELSE IF index >= count THEN count - 1 ELSE index
    IN  IF count = 0 THEN [err |-> "IndexOutOfRange", s |-> NilSlice, pv |-> OutOfRange(index, count)]
        ELSE IF indexInTail(ix, count, tail) THEN [err |-> "none", s |-> tail, pv |-> << >>]
        ELSE LET walk == Descend(heap, root, depth, ix)
             IN  IF walk <= 0 THEN [err |-> "runtime", s |-> NilSlice, pv |-> << >>]
                 ELSE [err |-> "none", s |-> heap[walk].values, pv |-> << >>]

\* findValues: the slice that holds index, as [err, s, pv].
findValues(heap, count, depth, root, tail, index) ==
    IF index < 0 \/ index >= count
    THEN [err |-> "IndexOutOfRange", s |-> NilSlice, pv |-> OutOfRange(index, count)]
    ELSE IF indexInTail(index, count, tail) THEN [err |-> "none", s |-> tail, pv |-> << >>]
    ELSE LET walk == Descend(heap, root, depth, index)
         IN  IF walk <= 0 THEN [err |-> "runtime", s |-> NilSlice, pv |-> << >>]
             ELSE [err |-> "none", s |-> heap[walk].values, pv |-> << >>]

\* findValues(...)[indexAt(0, index)]
Lookup(heap, arrs, v, index) ==
    LET f == findValues(heap, v.count, v.depth, v.root, v.tail, index)
        p == indexAt(0, index)
    IN  IF f.err = "IndexOutOfRange" THEN FailOutOfRange(f.pv[1], f.pv[2])
        ELSE IF f.err # "none" THEN Fail(f.err)
        ELSE IF p >= f.s.len THEN Fail("runtime")
        ELSE Ok(arrs[f.s.arr][p + 1])

VLen(v) == v.count

VNth(heap, arrs, v, index) == Lookup(heap, arrs, v, index)

VPeek(heap, arrs, v) == VNth(heap, arrs, v, v.count - 1)

\* What a reader sees of v: Nth(0), ..., Nth(Len() - 1).
Contents(heap, arrs, v) == [j \in 1 .. v.count |-> VNth(heap, arrs, v, j - 1)]

(* ----------------------------------------------------- persistent Vector *)
(* A Vector is [count, depth, tail, root]; a TransientVector adds id and      *)
(* invalid.  Every operation takes the machine record and returns             *)
(* [m |-> the machine after the call, res |-> the value returned].            *)

EmptyVector == [count |-> 0, depth |-> 0, tail |-> NilSlice, root |-> 0]

Vec(count, depth, tail, root) ==
    [count |-> count, depth |-> depth, tail |-> tail, root |-> root]

TVec(id, count, depth, tail, root) ==
    [id |-> id, invalid |-> FALSE, count |-> count, depth |-> depth,
     tail |-> tail, root |-> root]

\* An allocation that returns the same address every time.
NewId_Same(m) == [m |-> m, id |-> 1]

\* id := new(id): an address no other id has.
NewId(m) == [m |-> [m EXCEPT !.ids = @ + 1], id |-> m.ids + 1]

\* A Transient that takes the tail of v as it is.
Transient_SharedTail(m, v) ==
    LET i == NewId(m)
    IN  [m |-> i.m, res |-> TVec(i.id, v.count, v.depth, v.tail, v.root)]

Transient(m, v) ==
    LET i  == NewId(m)
        ct == cloneTail(i.m, v.tail)
    IN  [m |-> ct.m, res |-> TVec(i.id, v.count, v.depth, ct.s, v.root)]

\* A walk that goes down the nodes that are there and clones none.
VAssocWalk_InPlace(m, walk, level, index) ==
    LET d == Descend(m.heap, walk, level, index)
    IN  IF d <= 0 THEN [m |-> Panic(m, "runtime"), walk |-> 0]
        ELSE [m |-> m, walk |-> d]

RECURSIVE VAssocWalk(_, _, _, _)
\* The path-cloning loop of Vector.Assoc, as [m, walk].
VAssocWalk(m, walk, level, index) ==
    IF level = 0 \/ m.err # "none" THEN [m |-> m, walk |-> walk]
    ELSE IF walk = 0 \/ m.heap[walk].nodes = << >>
    THEN [m |-> Panic(m, "runtime"), walk |-> 0]
    ELSE LET i == indexAt(level, index)
             c == cloneNode(m, persistent, m.heap[walk].nodes[i + 1])
         IN  VAssocWalk(SetChild(c.m, walk, i, c.ref), c.ref, level - 1, index)

\* walk.values[pos] = value
SetValue(m, walk, pos, value) ==
    IF m.err # "none" THEN m
    ELSE IF walk = 0 THEN Panic(m, "runtime")
    ELSE SetCell(m, m.heap[walk].values, pos, value)

\* An Assoc that stores into the tail before it checks the index.
VAssoc_ChecksLate(m, v, index, value) ==
    IF index < 0 \/ index >= v.count
    THEN [m   |-> PanicOutOfRange(IF v.tail.len > 0 THEN SetCell(m, v.tail, 0, value) ELSE m,
                                  index, v.count),
          res |-> v]
    ELSE IF indexInTail(index, v.count, v.tail)
    THEN LET ct == cloneTail(m, v.tail)
         IN  [m   |-> SetCell(ct.m, ct.s, indexAt(0, index), value),
              res |-> Vec(v.count, v.depth, ct.s, v.root)]
    ELSE LET nr == cloneNode(m, persistent, v.root)
             wk == VAssocWalk(nr.m, nr.ref, v.depth, index)
         IN  [m   |-> SetValue(wk.m, wk.walk, indexAt(0, index), value),
              res |-> Vec(v.count, v.depth, v.tail, nr.ref)]

VAssoc(m, v, index, value) ==
    IF index < 0 \/ index >= v.count
    THEN [m |-> PanicOutOfRange(m, index, v.count), res |-> v]
    ELSE IF indexInTail(index, v.count, v.tail)
    THEN LET ct == cloneTail(m, v.tail)
         IN  [m   |-> SetCell(ct.m, ct.s, indexAt(0, index), value),
              res |-> Vec(v.count, v.depth, ct.s, v.root)]
    ELSE LET nr == cloneNode(m, persistent, v.root)
             wk == VAssocWalk(nr.m, nr.ref, v.depth, index)
         IN  [m   |-> SetValue(wk.m, wk.walk, indexAt(0, index), value),
              res |-> Vec(v.count, v.depth, v.tail, nr.ref)]

(* The indirect pointer of Conj: st.at.node = 0 stands for &newRoot, and     *)
(* otherwise st.at is the address of heap[node].nodes[slot].                  *)

Deref(st) ==
    IF st.at.node = 0 THEN st.root ELSE st.m.heap[st.at.node].nodes[st.at.slot + 1]

\* An assignment through indirect that is lost.
Store_Lost(st, ref) == st

\* *indirect = ref
Store(st, ref) ==
    IF st.at.node = 0 THEN [st EXCEPT !.root = ref]
    ELSE [st EXCEPT !.m = SetChild(st.m, st.at.node, st.at.slot, ref)]

\* indirect = &(*indirect).nodes[slot]
Advance(st, slot) ==
    LET cur == Deref(st)
    IN  IF cur = 0 \/ slot >= Len(st.m.heap[cur].nodes)
        THEN [st EXCEPT !.m = Panic(st.m, "runtime")]
        ELSE [st EXCEPT !.at = [node |-> cur, slot |-> slot]]

\* if *indirect == nil { *indirect = newNode(id) }
FillNil(st, id) ==
    IF Deref(st) # 0 THEN st
    ELSE LET n == newNode(st.m, id) IN Store([st EXCEPT !.m = n.m], n.ref)

RECURSIVE VConjWalk(_, _, _)
\* The loop of Vector.Conj.
VConjWalk(st, level, index) ==
    IF level = 0 \/ st.m.err # "none" THEN st
    ELSE VConjWalk(Advance(FillNil(st, persistent), indexAt(level, index)),
                   level - 1, index)

\* A deepening that leaves the old root out of the new one.
Deepen_DropsOldRoot(m, id, depth, count, root) ==
    IF ~isDeepEnoughToAppend(depth, count)
    THEN LET n == newNode(m, id)
         IN  [m |-> n.m, root |-> n.ref,
              depth |-> depth + 1, at |-> [node |-> 0, slot |-> 0]]
    ELSE [m |-> m, root |-> root, depth |-> depth, at |-> [node |-> 0, slot |-> 0]]

\* The new root and depth of Conj when the tail is full, as a walk state.
Deepen(m, id, depth, count, root) ==
    IF ~isDeepEnoughToAppend(depth, count)
    THEN LET n == newNode(m, id)
         IN  [m |-> SetChild(n.m, n.ref, 0, root) , root |-> n.ref,
              depth |-> depth + 1, at |-> [node |-> 0, slot |-> 0]]
    ELSE [m |-> m, root |-> root, depth |-> depth, at |-> [node |-> 0, slot |-> 0]]

\* A Conj that moves the tail into the trie one value before it is full.
VConj_PushesEarly(m, v, val) ==
    IF v.tail.len < nodeWidth - 1
    THEN LET ct == cloneTail(m, v.tail)
             ap == append(ct.m, ct.s, val)
         IN  [m |-> ap.m, res |-> Vec(v.count + 1, v.depth, ap.s, v.root)]
    ELSE LET d  == Deepen(m, persistent, v.depth, v.count, v.root)
             wk == VConjWalk(d, d.depth, v.count - 1)
             lf == newLeaf(wk.m, persistent, v.tail)
             st == Store([wk EXCEPT !.m = lf.m], lf.ref)
             nt == MakeSlice(st.m, << val >>)
         IN  [m |-> nt.m, res |-> Vec(v.count + 1, d.depth, nt.s, st.root)]

VConj(m, v, val) ==
    IF v.tail.len < nodeWidth
    THEN LET ct == cloneTail(m, v.tail)
             ap == append(ct.m, ct.s, val)
         IN  [m |-> ap.m, res |-> Vec(v.count + 1, v.depth, ap.s, v.root)]
    ELSE LET d  == Deepen(m, persistent, v.depth, v.count, v.root)
             wk == VConjWalk(d, d.depth, v.count - 1)
             lf == newLeaf(wk.m, persistent, v.tail)
             st == Store([wk EXCEPT !.m = lf.m], lf.ref)
             nt == MakeSlice(st.m, << val >>)
         IN  [m |-> nt.m, res |-> Vec(v.count + 1, d.depth, nt.s, st.root)]

(* ------------------------------------------------------- TransientVector *)

\* A check that takes a TransientVector without an id for an invalid one.
ensureValid_NeedsId(v) ==
    IF v.invalid \/ v.id = persistent THEN "InvalidHandleReuse" ELSE "none"

ensureValid(v) == IF v.invalid THEN "InvalidHandleReuse" ELSE "none"

\* invalidate has a value receiver: after ensureValid it sets the flag on its
\* own copy of v, so the v of the caller is what it was.
invalidate(v) == [err |-> ensureValid(v), v |-> v]

\* A Persistent that returns a Vector without a tail.
Persistent_DropsTail(m, v0) ==
    LET cr == cloneNode(m, persistent, v0.root)
    IN  [m |-> cr.m, res |-> Vec(v0.count, v0.depth, NilSlice, cr.ref)]

Persistent(m, v0) ==
    IF invalidate(v0).err # "none"
    THEN [m |-> Panic(m, invalidate(v0).err), res |-> EmptyVector]
    ELSE LET v  == invalidate(v0).v
             ct == cloneTail(m, v.tail)
             cr == cloneNode(ct.m, persistent, v.root)
         IN  [m |-> cr.m, res |-> Vec(v.count, v.depth, ct.s, cr.ref)]

TLen(v) == IF ensureValid(v) # "none" THEN Fail(ensureValid(v)) ELSE Ok(v.count)

TNth(heap, arrs, v, index) ==
    IF ensureValid(v) # "none" THEN Fail(ensureValid(v))
    ELSE Lookup(heap, arrs, v, index)

\* A Peek that reads one past the last value.
TPeek_AtCount(heap, arrs, v) == TNth(heap, arrs, v, v.count)

TPeek(heap, arrs, v) == TNth(heap, arrs, v, v.count - 1)

\* An ownership test that takes every node for the builder's own.
NotOwned_Never(nodeId, id) == FALSE

\* walk.nodes[i].id != v.id
NotOwned(nodeId, id) == nodeId # id

RECURSIVE TAssocWalk(_, _, _, _, _)
\* The loop of TransientVector.Assoc, as [m, walk].
TAssocWalk(m, id, walk, level, index) ==
    IF level = 0 \/ m.err # "none" THEN [m |-> m, walk |-> walk]
    ELSE IF walk = 0 \/ m.heap[walk].nodes = << >>
    THEN [m |-> Panic(m, "runtime"), walk |-> 0]
    ELSE LET i     == indexAt(level, index)
             child == m.heap[walk].nodes[i + 1]
         IN  IF child = 0 THEN [m |-> Panic(m, "runtime"), walk |-> 0]
             ELSE IF NotOwned(m.heap[child].id, id)
             THEN LET c == cloneNode(m, id, child)
                  IN  TAssocWalk(SetChild(c.m, walk, i, c.ref), id, c.ref,
                                 level - 1, index)
             ELSE TAssocWalk(m, id, child, level - 1, index)

\* An Assoc that stores nothing.
TAssoc_StoresNothing(m, v0, index, value) == [m |-> m, res |-> v0]

TAssoc(m, v0, index, value) ==
    LET v == invalidate(v0).v IN
    IF invalidate(v0).err # "none"
    THEN [m |-> Panic(m, invalidate(v0).err), res |-> v]
    ELSE IF index < 0 \/ index >= v.count
    THEN [m |-> PanicOutOfRange(m, index, v.count), res |-> v]
    ELSE IF indexInTail(index, v.count, v.tail)
    THEN [m   |-> SetCell(m, v.tail, indexAt(0, index), value),
          res |-> TVec(v.id, v.count, v.depth, v.tail, v.root)]
    ELSE IF v.root = 0
    THEN [m |-> Panic(m, "runtime"), res |-> v]
    ELSE LET nr == IF NotOwned(m.heap[v.root].id, v.id)
                   THEN cloneNode(m, v.id, v.root)
                   ELSE [m |-> m, ref |-> v.root]
             wk == TAssocWalk(nr.m, v.id, nr.ref, v.depth, index)
         IN  [m   |-> SetValue(wk.m, wk.walk, indexAt(0, index), value),
              res |-> TVec(v.id, v.count, v.depth, v.tail, nr.ref)]

\* A step that never clones.
CloneIfNotOwned_Skip(st, id) == st

\* if (*indirect).id != v.id { *indirect = cloneNode(v.id, *indirect) }
CloneIfNotOwned(st, id) ==
    IF ~NotOwned(st.m.heap[Deref(st)].id, id) THEN st
    ELSE LET c == cloneNode(st.m, id, Deref(st))
         IN  Store([st EXCEPT !.m = c.m], c.ref)

\* A walk that stops at the root.
TConjWalk_NoDescent(st, id, level, index) == st

RECURSIVE TConjWalk(_, _, _, _)
\* The loop of TransientVector.Conj.
TConjWalk(st, id, level, index) ==
    IF level = 0 \/ st.m.err # "none" THEN st
    ELSE TConjWalk(Advance(CloneIfNotOwned(FillNil(st, id), id),
                           indexAt(level, index)),
                   id, level - 1, index)

\* A Conj that clones the root before it walks, as Vector.Conj would.
TConj_ClonesRoot(m, v0, val) ==
    LET v == invalidate(v0).v IN
    IF invalidate(v0).err # "none"
    THEN [m |-> Panic(m, invalidate(v0).err), res |-> v]
    ELSE IF v.tail.len < nodeWidth
    THEN LET ap == append(m, v.tail, val)
         IN  [m |-> ap.m, res |-> TVec(v.id, v.count + 1, v.depth, ap.s, v.root)]
    ELSE LET cr == cloneNode(m, v.id, v.root)
             d  == Deepen(cr.m, v.id, v.depth, v.count, cr.ref)
             wk == TConjWalk(d, v.id, d.depth, v.count - 1)
             lf == newLeaf(wk.m, v.id, v.tail)
             st == Store([wk EXCEPT !.m = lf.m], lf.ref)
             mt == MakeTail(st.m)
             ap == append(mt.m, mt.s, val)
         IN  [m |-> ap.m, res |-> TVec(v.id, v.count + 1, d.depth, ap.s, st.root)]

TConj(m, v0, val) ==
    LET v == invalidate(v0).v IN
    IF invalidate(v0).err # "none"
    THEN [m |-> Panic(m, invalidate(v0).err), res |-> v]
    ELSE IF v.tail.len < nodeWidth
    THEN LET ap == append(m, v.tail, val)
         IN  [m |-> ap.m, res |-> TVec(v.id, v.count + 1, v.depth, ap.s, v.root)]
    ELSE LET d  == Deepen(m, v.id, v.depth, v.count, v.root)
             wk == TConjWalk(d, v.id, d.depth, v.count - 1)
             lf == newLeaf(wk.m, v.id, v.tail)
             st == Store([wk EXCEPT !.m = lf.m], lf.ref)
             mt == MakeTail(st.m)
             ap == append(mt.m, mt.s, val)
         IN  [m |-> ap.m, res |-> TVec(v.id, v.count + 1, d.depth, ap.s, st.root)]

RECURSIVE ConjAll(_, _, _)
\* The loop of New: v = v.Conj(vals[i]) for every i, as [m, res].
ConjAll(m, v, vals) ==
    IF vals = << >> THEN [m |-> m, res |-> v]
    ELSE LET c == TConj(m, v, Head(vals)) IN ConjAll(c.m, c.res, Tail(vals))

New(m, vals) ==
    LET t == Transient(m, EmptyVector)
        c == ConjAll(t.m, t.res, vals)
    IN  Persistent(c.m, c.res)

(* ----------------------------------------------------------------- lists *)
(* src/lists: a List is the struct [count, first, rest]; rest is a pointer to *)
(* a List on the heap lh (a sequence of List structs, 0 is nil).  No method   *)
(* assigns through a pointer, so lh only grows.                               *)

\* var l List[T]
ZeroList == [count |-> 0, first |-> Zero, rest |-> 0]

ListLen(l) == l.count

ListFirst(l) == l.first

\* return *l.rest: a copy of the struct pointed to; nil when l is the zero list.
ListRest(lh, l) ==
    IF l.rest = 0 THEN [err |-> "runtime", res |-> ZeroList]
    ELSE [err |-> "none", res |-> lh[l.rest]]

\* A Conj that leaves the count as it is.
ListConj_SameCount(lh, l, val) ==
    [lh  |-> Append(lh, l),
     res |-> [count |-> l.count, first |-> val, rest |-> Len(lh) + 1]]

\* The receiver l is a copy of the caller's struct, and &l moves that copy to
\* the heap.
ListConj(lh, l, val) ==
    [lh  |-> Append(lh, l),
     res |-> [count |-> l.count + 1, first |-> val, rest |-> Len(lh) + 1]]

RECURSIVE ListNewLoop(_, _, _, _)
\* for i := len(vals) - 1; i >= 0; i-- { l = l.Conj(vals[i]) }, i one-based.
ListNewLoop(lh, l, vals, i) ==
    IF i < 1 THEN [lh |-> lh, res |-> l]
    ELSE LET c == ListConj(lh, l, vals[i]) IN ListNewLoop(c.lh, c.res, vals, i - 1)

\* A New that conjoins the values first to last.
ListNew_Forward(lh, vals) ==
    ListNewLoop(lh, ZeroList, [j \in 1 .. Len(vals) |-> vals[Len(vals) + 1 - j]], Len(vals))

ListNew(lh, vals) == ListNewLoop(lh, ZeroList, vals, Len(vals))

RECURSIVE ListEqualWalk(_, _, _)
\* The loop of Equal over the structs aw and bw point to.
ListEqualWalk(lh, aw, bw) ==
    IF aw.count > 0 /\ bw.count > 0
    THEN IF aw.first # bw.first THEN FALSE
         ELSE ListEqualWalk(lh, lh[aw.rest], lh[bw.rest])
    ELSE TRUE

ListEqual(lh, a, b) ==
    IF ListLen(a) # ListLen(b) THEN FALSE ELSE ListEqualWalk(lh, a, b)

(* ---------------------------------------------------------------- String *)

\* A text without the separating spaces.
Join_NoSpace(elems) == [j \in 1 .. Len(elems) |-> ToString(elems[j].val)]

RECURSIVE Join(_)
\* The text String builds from the results of Nth(0), Nth(1), ...: "%v" of
\* the first value, " %v" of every later one.
Join(elems) ==
    IF elems = << >> THEN << >>
    ELSE IF Len(elems) = 1 THEN << ToString(elems[1].val) >>
    ELSE Join(SubSeq(elems, 1, Len(elems) - 1)) \o << " ", ToString(elems[Len(elems)].val) >>

Rendering(heap, arrs, v) ==
    LET elems == Contents(heap, arrs, v)
    IN  IF \E j \in 1 .. Len(elems) : elems[j].err # "none" THEN Fail("runtime")
        ELSE Ok(<< "[" >> \o Join(elems) \o << "]" >>)

VString(heap, arrs, v) == Rendering(heap, arrs, v)

TString(heap, arrs, v) ==
    IF ensureValid(v) # "none" THEN Fail(ensureValid(v)) ELSE Rendering(heap, arrs, v)

(* ----------------------------------------------------------------- state *)
(*   heap, arrs, ids : the Go heap (nodes, backing arrays, ids allocated)    *)
(*   vecs     : the Vector values the program holds, in order of production  *)
(*   tvs      : the TransientVector values the program holds                 *)
(*   last     : the call made last: its operation, receiver h, arguments i   *)
(*              and x, the position res of its result, its panic err and     *)
(*              what the panic carries pv, the number hl of nodes on the     *)
(*              heap before the call, the                                    *)
(*              nodes w and arrays wa it wrote that were allocated before    *)
(*              the call, and pre: what the Vector it was called on (for a   *)
(*              TransientVector, the Vector its lineage was made from) read  *)
(*              as before the call, and all: what every Vector read as       *)
(*              before the call                                              *)
(*   made     : made[k] is the call that produced vecs[k] and the position   *)
(*              of the Vector it was derived from (the receiver of Conj and  *)
(*              Assoc, the Vector a TransientVector's lineage was made from, *)
(*              0 for New)                                                   *)
(*   born     : born[k] is what vecs[k] read as when it was produced         *)
(*   vfrom    : vfrom[k] is the id of the TransientVector whose Persistent   *)
(*              produced vecs[k], 0 for any other Vector                     *)
(*   torigin  : torigin[h] is the position in vecs of the Vector that the    *)
(*              lineage of tvs[h] was made from by Transient, 0 when the     *)
(*              lineage started from the zero value of TransientVector       *)
(*   tlog     : tlog[h] is the Conj and Assoc calls made on the lineage of   *)
(*              tvs[h] since it started                                      *)
(*   tline    : tline[h] is the position in tvs of the first value of the    *)
(*              lineage of tvs[h]                                            *)
(*   consumed : the positions in tvs on which Conj, Assoc or Persistent      *)
(*              has been called                                              *)
(*   nOps, nNew : calls made so far that returned a vector; calls of New     *)
(* Len, Nth, Peek and String change nothing: they are the operators VLen,    *)
(* VNth, VPeek, VString, TLen, TNth, TPeek and TString of the state.         *)

VARIABLES heap, arrs, ids, vecs, tvs, last, made, born, vfrom, torigin, tlog, tline, consumed, nOps, nNew

(* The program of src/lists:                                                 *)
(*   lheap    : the List structs on the heap                                 *)
(*   lists    : the List values the program holds, in order of production    *)
(*   lmade    : lmade[k] is the call that returned lists[k]: its operation,  *)
(*              the position from of the list it was called on, its value x  *)
(*              or values vals, and born: the values lists[k] gave then      *)
(*   lerr     : "none", or the panic that ended the program                  *)
VARIABLES lheap, lists, lmade, lerr

(* The shape of one vector that grows by Conj, for a digit of shape.bits     *)
(* bits: its count, depth and len(tail), and pcount, pdepth and ptail, what  *)
(* they were before the last Conj (all 0 before the first).                  *)
VARIABLE shape

vvars == << heap, arrs, ids, vecs, tvs, last, made, born, vfrom, torigin, tlog, tline, consumed, nOps, nNew >>

lvars == << lheap, lists, lmade, lerr >>

vars == << vvars, lvars, shape >>

\* What the Vector at position k reads as now.
Reads(k) == Contents(heap, arrs, vecs[k])

\* What the Vector that the lineage of tvs[h] was made from reads as now.
ReadsOrigin(h) == IF torigin[h] = 0 THEN << >> ELSE Reads(torigin[h])

Call(op, h, i, x, pre) ==
    [op |-> op, h |-> h, i |-> i, x |-> x, res |-> 0, err |-> "none",
     pv |-> << >>, hl |-> Len(heap), pre |-> pre, all |-> [k \in 1 .. Len(vecs) |-> Reads(k)],
     w |-> {}, wa |-> {}, path |-> << >>, al |-> Len(arrs),
     tall |-> [g \in 1 .. Len(tvs) |-> Contents(heap, arrs, tvs[g])]]

RECURSIVE Met(_, _, _, _, _)
\* The nodes a walk dereferences from the node walk at `level` down to the
\* level `low` on the way to index, root first; it ends at a nil slot.
Met(h, walk, level, index, low) ==
    IF walk = 0 \/ level < low THEN << >>
    ELSE IF level = 0 \/ h[walk].nodes = << >> THEN << walk >>
    ELSE << walk >> \o Met(h, h[walk].nodes[indexAt(level, index) + 1], level - 1, index, low)

\* The nodes of the heap that the walk of t.Assoc(i, x) or t.Conj(x) meets:
\* Assoc walks from the root to the leaf of i, Conj from the root to the
\* node above the slot of the new leaf; a Conj that deepens the trie walks
\* from the root it has just made, into slots that are empty.
WalkMeets(t, op, i) ==
    IF op = "TAssoc"
    THEN IF i < 0 \/ i >= t.count \/ indexInTail(i, t.count, t.tail) THEN << >>
         ELSE Met(heap, t.root, t.depth, i, 0)
    ELSE IF t.tail.len < nodeWidth \/ ~isDeepEnoughToAppend(t.depth, t.count) THEN << >>
         ELSE Met(heap, t.root, t.depth, t.count - 1, 1)

\* The position of the Vector a call is made on: the receiver, or the Vector
\* that the lineage of the receiving TransientVector was made from.
Receiver(c) ==
    IF c.op \in {"Conj", "Assoc", "Transient"} THEN c.h
    ELSE IF c.op \in {"TConj", "TAssoc", "Persistent"} THEN torigin[c.h]
    ELSE 0

\* The machine a call starts from.
M0 == [heap |-> heap, arrs |-> arrs, ids |-> ids, w |-> {}, wa |-> {}, err |-> "none",
       pv |-> << >>, ws |-> {}, wc |-> {}]

\* A call is made while the program runs (a panic ends it) and the heap has
\* room for what the call allocates.
Running == last.err = "none"

Fits(m) == Len(m.heap) <= MaxNodes /\ Len(m.arrs) <= MaxArrs

\* The heap after a call, and what the call wrote of the nodes and arrays that
\* existed before it.
Effect(c, m) ==
    /\ Running
    /\ Fits(m)
    /\ UNCHANGED << lvars, shape >>
    /\ heap' = m.heap
    /\ arrs' = m.arrs
    /\ ids' = m.ids
    /\ last' = [c EXCEPT !.err = m.err,
                         !.pv = m.pv,
                         !.w = m.w \cap (1 .. Len(heap)),
                         !.wa = m.wa \cap (1 .. Len(arrs))]

\* A call that returns the Vector r.res, or panics.
ReturnVector(c, r, from) ==
    IF r.m.err # "none"
    THEN /\ Effect(c, r.m)
         /\ UNCHANGED << vecs, made, born, vfrom, nOps >>
    ELSE /\ Effect([c EXCEPT !.res = Len(vecs) + 1], r.m)
         /\ vecs' = Append(vecs, r.res)
         /\ made' = Append(made, [op |-> c.op, from |-> Receiver(c)])
         /\ born' = Append(born, Contents(r.m.heap, r.m.arrs, r.res))
         /\ vfrom' = Append(vfrom, from)
         /\ nOps' = nOps + 1

\* A call that returns the TransientVector r.res, or panics.
ReturnTransient(c, r, origin) ==
    IF r.m.err # "none"
    THEN /\ Effect(c, r.m)
         /\ UNCHANGED << tvs, torigin, tlog, tline, nOps >>
    ELSE /\ Effect([c EXCEPT !.res = Len(tvs) + 1], r.m)
         /\ tvs' = Append(tvs, r.res)
         /\ torigin' = Append(torigin, origin)
         /\ tlog' = Append(tlog, IF c.op = "Transient" THEN << >>
                                  ELSE IF c.op = "ZeroBuild"
                                  THEN [k \in 1 .. c.i |-> [op |-> "TConj", i |-> 0, x |-> k]]
                                  ELSE Append(tlog[c.h], [op |-> c.op, i |-> c.i, x |-> c.x]))
         /\ tline' = Append(tline, IF c.op \in {"Transient", "ZeroBuild"}
                                    THEN Len(tvs) + 1 ELSE tline[c.h])
         /\ nOps' = nOps + 1

\* The shape of the empty vector.
EmptyShape(bits) ==
    [bits |-> bits, count |-> 0, depth |-> 0, tail |-> 0,
     pcount |-> 0, pdepth |-> 0, ptail |-> 0]

Init ==
    /\ shape = EmptyShape(nodeBits)
    /\ heap = << >>
    /\ arrs = << >>
    /\ ids = 0
    /\ vecs = << >>
    /\ tvs = << >>
    /\ last = Call("init", 0, 0, 0, << >>)
    /\ made = << >>
    /\ born = << >>
    /\ vfrom = << >>
    /\ torigin = << >>
    /\ tlog = << >>
    /\ tline = << >>
    /\ consumed = {}
    /\ nOps = 0
    /\ nNew = 0
    /\ lheap = << >>
    /\ lists = << >>
    /\ lmade = << >>
    /\ lerr = "none"

\* The arguments of New: n distinct values in order.
Iota(n) == [k \in 1 .. n |-> k]

DoNew(n) ==
    /\ nOps < MaxOps
    /\ nNew < MaxNew
    /\ ReturnVector(Call("New", 0, n, 0, << >>), New(M0, Iota(n)), 0)
    /\ nNew' = nNew + 1
    /\ UNCHANGED << tvs, torigin, tlog, tline, consumed >>

DoConj(k, x) ==
    /\ nOps < MaxOps
    /\ ReturnVector(Call("Conj", k, 0, x, Reads(k)), VConj(M0, vecs[k], x), 0)
    /\ UNCHANGED << tvs, torigin, tlog, tline, consumed, nNew >>

DoAssoc(k, i, x) ==
    /\ nOps < MaxOps
    /\ ReturnVector(Call("Assoc", k, i, x, Reads(k)), VAssoc(M0, vecs[k], i, x), 0)
    /\ UNCHANGED << tvs, torigin, tlog, tline, consumed, nNew >>

DoTransient(k) ==
    /\ nOps < MaxOps
    /\ ReturnTransient(Call("Transient", k, 0, 0, Reads(k)), Transient(M0, vecs[k]), k)
    /\ UNCHANGED << vecs, made, born, vfrom, consumed, nNew >>

DoTConj(h, x) ==
    /\ nOps < MaxOps
    /\ ReturnTransient([Call("TConj", h, 0, x, ReadsOrigin(h))
                            EXCEPT !.path = WalkMeets(tvs[h], "TConj", 0)],
                       TConj(M0, tvs[h], x), torigin[h])
    /\ consumed' = consumed \cup {h}
    /\ UNCHANGED << vecs, made, born, vfrom, nNew >>

DoTAssoc(h, i, x) ==
    /\ nOps < MaxOps
    /\ ReturnTransient([Call("TAssoc", h, i, x, ReadsOrigin(h))
                            EXCEPT !.path = WalkMeets(tvs[h], "TAssoc", i)],
                       TAssoc(M0, tvs[h], i, x), torigin[h])
    /\ consumed' = consumed \cup {h}
    /\ UNCHANGED << vecs, made, born, vfrom, nNew >>

DoPersistent(h) ==
    /\ nOps < MaxOps
    /\ ReturnVector(Call("Persistent", h, 0, 0, ReadsOrigin(h)), Persistent(M0, tvs[h]), tvs[h].id)
    /\ consumed' = consumed \cup {h}
    /\ UNCHANGED << tvs, torigin, tlog, tline, nNew >>

\* The indices a call is tried with: every valid one, and one on either side.
Indices(count) == -1 .. count

Next ==
    \/ \E n \in 0 .. MaxLen : DoNew(n)
    \/ \E k \in 1 .. Len(vecs), x \in Vals : DoConj(k, x)
    \/ \E k \in 1 .. Len(vecs), x \in Vals : \E i \in Indices(vecs[k].count) : DoAssoc(k, i, x)
    \/ \E k \in 1 .. Len(vecs) : DoTransient(k)
    \/ \E h \in 1 .. Len(tvs), x \in Vals : DoTConj(h, x)
    \/ \E h \in 1 .. Len(tvs), x \in Vals : \E i \in Indices(tvs[h].count) : DoTAssoc(h, i, x)
    \/ \E h \in 1 .. Len(tvs) : DoPersistent(h)

Spec == Init /\ [][Next]_vars

\* The documented use of a TransientVector: no call on a value that Conj,
\* Assoc or Persistent has been called on before.
NextLinear ==
    \/ \E n \in 0 .. MaxLen : DoNew(n)
    \/ \E k \in 1 .. Len(vecs), x \in Vals : DoConj(k, x)
    \/ \E k \in 1 .. Len(vecs), x \in Vals : \E i \in Indices(vecs[k].count) : DoAssoc(k, i, x)
    \/ \E k \in 1 .. Len(vecs) : DoTransient(k)
    \/ \E h \in (1 .. Len(tvs)) \ consumed, x \in Vals : DoTConj(h, x)
    \/ \E h \in (1 .. Len(tvs)) \ consumed, x \in Vals : \E i \in Indices(tvs[h].count) : DoTAssoc(h, i, x)
    \/ \E h \in (1 .. Len(tvs)) \ consumed : DoPersistent(h)

SpecLinear == Init /\ [][NextLinear]_vars

\* The calls the package documents as safe to make from any number of
\* goroutines on shared Vectors, in any order.
NextShared ==
    \/ \E n \in 0 .. MaxLen : DoNew(n)
    \/ \E k \in 1 .. Len(vecs), x \in Vals : DoConj(k, x)
    \/ \E k \in 1 .. Len(vecs), x \in Vals : \E i \in Indices(vecs[k].count) : DoAssoc(k, i, x)
    \/ \E k \in 1 .. Len(vecs) : DoTransient(k)

SpecShared == Init /\ [][NextShared]_vars

\* var vec TransientVector[T]: the zero value.
ZeroTransient == TVec(persistent, 0, 0, NilSlice, 0)

\* vec := TransientVector[int]{}; for i := 0; i < n; i++ { vec = vec.Conj(i + 1) }
DoZeroBuild(n) ==
    /\ nOps < MaxOps
    /\ Cardinality({h \in 1 .. Len(tvs) : torigin[h] = 0 /\ tline[h] = h}) < MaxZero
    /\ ReturnTransient(Call("ZeroBuild", 0, n, 0, << >>), ConjAll(M0, ZeroTransient, Iota(n)), 0)
    /\ UNCHANGED << vecs, made, born, vfrom, consumed, nNew >>

\* The documented use of TransientVectors, those built from the zero value
\* among them.
NextZero ==
    \/ \E n \in 0 .. MaxLen : DoNew(n)
    \/ \E n \in 0 .. MaxZeroLen : DoZeroBuild(n)
    \/ \E k \in 1 .. Len(vecs), x \in Vals : DoConj(k, x)
    \/ \E k \in 1 .. Len(vecs), x \in Vals : \E i \in Indices(vecs[k].count) : DoAssoc(k, i, x)
    \/ \E k \in 1 .. Len(vecs) : DoTransient(k)
    \/ \E h \in (1 .. Len(tvs)) \ consumed, x \in Vals : DoTConj(h, x)
    \/ \E h \in (1 .. Len(tvs)) \ consumed, x \in Vals : \E i \in Indices(tvs[h].count) : DoTAssoc(h, i, x)
    \/ \E h \in (1 .. Len(tvs)) \ consumed : DoPersistent(h)

SpecZero == Init /\ [][NextZero]_vars

(* ------------------------------------------------------ the lists program *)

RECURSIVE Firsts(_, _, _)
\* The values First() returns on l, l.Rest(), l.Rest().Rest(), ..., n of them;
\* -1 stands for a Rest() that dereferenced nil.
Firsts(lh, l, n) ==
    IF n = 0 THEN << >>
    ELSE IF n = 1 THEN << ListFirst(l) >>
    ELSE IF ListRest(lh, l).err # "none" THEN << ListFirst(l), -1 >>
    ELSE << ListFirst(l) >> \o Firsts(lh, ListRest(lh, l).res, n - 1)

LVals == 1 .. MaxListVal

RECURSIVE SeqsUpTo(_)
\* Every sequence of at most n values.
SeqsUpTo(n) ==
    IF n = 0 THEN {<< >>}
    ELSE SeqsUpTo(n - 1) \cup {Append(q, x) : q \in {r \in SeqsUpTo(n - 1) : Len(r) = n - 1}, x \in LVals}

\* A call that returned the List r.res.
ReturnList(op, from, x, vals, r) ==
    /\ lerr = "none"
    /\ Len(lists) < MaxLists
    /\ lheap' = r.lh
    /\ lists' = Append(lists, r.res)
    /\ lmade' = Append(lmade, [op |-> op, from |-> from, x |-> x, vals |-> vals,
                                born |-> Firsts(r.lh, r.res, r.res.count)])
    /\ UNCHANGED << lerr, vvars, shape >>

DoListNew(vals) == ReturnList("New", 0, 0, vals, ListNew(lheap, vals))

DoListConj(k, x) == ReturnList("Conj", k, x, << >>, ListConj(lheap, lists[k], x))

DoListRest(k) ==
    LET r == ListRest(lheap, lists[k])
    IN  IF r.err = "none"
        THEN ReturnList("Rest", k, 0, << >>, [lh |-> lheap, res |-> r.res])
        ELSE /\ lerr = "none"
             /\ lerr' = r.err
             /\ UNCHANGED << lheap, lists, lmade, vvars, shape >>

NextList ==
    \/ \E vals \in SeqsUpTo(MaxListLen) : DoListNew(vals)
    \/ \E k \in 1 .. Len(lists), x \in LVals : DoListConj(k, x)
    \/ \E k \in 1 .. Len(lists) : DoListRest(k)

SpecList == Init /\ [][NextList]_vars

(* ------------------------------------------------- the growth of the trie *)
(* What Conj does to count, depth and len(tail); the persistent and the      *)
(* transient Conj compute the three the same way.                            *)

ShapeBits == {nodeBits, sourceNodeBits}

ShapeConj(sh) ==
    IF sh.tail < Pow2(sh.bits)
    THEN [sh EXCEPT !.count = @ + 1, !.tail = @ + 1,
                    !.pcount = sh.count, !.pdepth = sh.depth, !.ptail = sh.tail]
    ELSE [sh EXCEPT !.count = @ + 1, !.tail = 1,
                    !.depth = IF ~isDeepEnoughToAppendAt(sh.bits, sh.depth, sh.count)
                              THEN @ + 1 ELSE @,
                    !.pcount = sh.count, !.pdepth = sh.depth, !.ptail = sh.tail]

DoShapeConj ==
    /\ shape.count < MaxShapeCount
    /\ shape' = ShapeConj(shape)
    /\ UNCHANGED << vvars, lvars >>

InitShape ==
    /\ shape \in {EmptyShape(b) : b \in ShapeBits}
    /\ heap = << >>
    /\ arrs = << >>
    /\ ids = 0
    /\ vecs = << >>
    /\ tvs = << >>
    /\ last = Call("init", 0, 0, 0, << >>)
    /\ made = << >>
    /\ born = << >>
    /\ vfrom = << >>
    /\ torigin = << >>
    /\ tlog = << >>
    /\ tline = << >>
    /\ consumed = {}
    /\ nOps = 0
    /\ nNew = 0
    /\ lheap = << >>
    /\ lists = << >>
    /\ lmade = << >>
    /\ lerr = "none"

NextShape == DoShapeConj

SpecShape == InitShape /\ [][NextShape]_vars

(* ------------------------------------------------------------ properties *)

RECURSIVE NodesUnder(_, _, _)
\* The nodes reachable from the node ref through at most `fuel` child slots.
NodesUnder(h, ref, fuel) ==
    IF ref = 0 \/ fuel = 0 THEN {}
    ELSE {ref} \cup UNION {NodesUnder(h, h[ref].nodes[s], fuel - 1) :
                             s \in 1 .. Len(h[ref].nodes)}

\* The nodes and the backing arrays reachable from the vector v.
NodesOf(h, v) == NodesUnder(h, v.root, Len(h))

ArraysOf(h, v) ==
    ({v.tail.arr} \cup {h[n].values.arr : n \in NodesOf(h, v)}) \ {0}

BuilderOps == {"TConj", "TAssoc", "Persistent"}

\* C1: every Vector ever produced reads as it did when it was produced:
\* the same Len() and the same Nth(j) for every j, whatever was called since.
C1_EveryVectorKeepsItsContents ==
    \A k \in 1 .. Len(vecs) : Contents(heap, arrs, vecs[k]) = born[k]

\* C4: no call writes a child slot of a node, or a cell of an array, that is
\* reachable from a Vector that existed before the call.
C4_NoWriteIntoPublishedNode ==
    [][\A k \in 1 .. Len(vecs) :
          /\ last'.w \cap NodesOf(heap, vecs[k]) = {}
          /\ last'.wa \cap ArraysOf(heap, vecs[k]) = {}]_vars

\* C5: every operation on a TransientVector value that Conj, Assoc or
\* Persistent was called on fails with the panic of ensureValid.
C5_ConsumedBuilderIsRejected ==
    \A h \in consumed :
        /\ TLen(tvs[h]).err = "InvalidHandleReuse"
        /\ \A i \in 0 .. tvs[h].count - 1 :
               TNth(heap, arrs, tvs[h], i).err = "InvalidHandleReuse"
        /\ TPeek(heap, arrs, tvs[h]).err = "InvalidHandleReuse"
        /\ TString(heap, arrs, tvs[h]).err = "InvalidHandleReuse"
        /\ \A x \in Vals : TConj(M0, tvs[h], x).m.err = "InvalidHandleReuse"
        /\ \A x \in Vals, i \in 0 .. tvs[h].count - 1 :
               TAssoc(M0, tvs[h], i, x).m.err = "InvalidHandleReuse"
        /\ Persistent(M0, tvs[h]).m.err = "InvalidHandleReuse"

\* C6: a Vector made by Persistent reads the same before and after every
\* later call on a TransientVector of the lineage it was made from.
C6_FrozenVectorSafeFromItsLineage ==
    [][last'.op \in BuilderOps =>
          \A k \in 1 .. Len(vecs) :
              vfrom[k] = tvs[last'.h].id =>
                  Contents(heap', arrs', vecs[k]) = Contents(heap, arrs, vecs[k])]_vars

\* C7: a call of Conj, Assoc or Persistent on a TransientVector leaves the
\* Vector its lineage was made from by Transient reading as before: the same
\* Len() and the same Nth(j) for every j.
C7_ThawedVectorUnchanged ==
    last.op \in BuilderOps => Reads(torigin[last.h]) = last.pre

\* A TransientVector Assoc that went down a trie of depth 1 or more, the trie
\* of its lineage's Vector, and wrote a leaf.
C7_Witness ==
    /\ last.op = "TAssoc"
    /\ last.err = "none"
    /\ tvs[last.h].depth >= 1
    /\ ~indexInTail(last.i, tvs[last.h].count, tvs[last.h].tail)
    /\ tvs[last.h].root = vecs[torigin[last.h]].root

\* C2: after r := v.Assoc(i, x) with i in [0, v.Len()), r.Nth(i) is x and
\* v.Nth(i) is what it was before the call.
C2_AssocSetsAndKeepsOriginal ==
    (last.op = "Assoc" /\ last.err = "none") =>
        /\ VNth(heap, arrs, vecs[last.res], last.i) = Ok(last.x)
        /\ VNth(heap, arrs, vecs[last.h], last.i) = last.pre[last.i + 1]

\* An Assoc that reached a leaf under two levels of branches.
C2_Witness ==
    /\ last.op = "Assoc"
    /\ last.err = "none"
    /\ vecs[last.h].depth = 2
    /\ ~indexInTail(last.i, vecs[last.h].count, vecs[last.h].tail)

\* C3: after r := v.Conj(x), r.Len() is v.Len() + 1 and r.Peek() is x, and
\* v.Len() and, for a non-empty v, v.Peek() are what they were before.
C3_ConjGrowsByOne ==
    (last.op = "Conj" /\ last.err = "none") =>
        /\ VLen(vecs[last.res]) = Len(last.pre) + 1
        /\ VPeek(heap, arrs, vecs[last.res]) = Ok(last.x)
        /\ VLen(vecs[last.h]) = Len(last.pre)
        /\ Len(last.pre) > 0 =>
               VPeek(heap, arrs, vecs[last.h]) = last.pre[Len(last.pre)]

\* A Conj on a vector whose tail was full and whose trie had a branch level.
C3_Witness ==
    /\ last.op = "Conj"
    /\ last.err = "none"
    /\ vecs[last.h].tail.len = nodeWidth
    /\ vecs[last.h].depth >= 1

\* C8: New(vals...) has Len() = len(vals) and Nth(i) = vals[i] for every i.
C8_NewKeepsOrder ==
    last.op = "New" =>
        /\ VLen(vecs[last.res]) = last.i
        /\ \A j \in 0 .. last.i - 1 :
               VNth(heap, arrs, vecs[last.res], j) = Ok(Iota(last.i)[j + 1])

\* A New whose values filled the trie and added root levels.
C8_Witness ==
    /\ last.op = "New"
    /\ last.i > nodeWidth * nodeWidth
    /\ vecs[last.res].depth >= 1

RECURSIVE VConjAll(_, _, _)
\* v = v.Conj(vals[i]) for every i: the persistent Conj, once per value.
VConjAll(m, v, vals) ==
    IF vals = << >> THEN [m |-> m, res |-> v]
    ELSE LET c == VConj(m, v, Head(vals)) IN VConjAll(c.m, c.res, Tail(vals))

\* C9: New(vals...) reads as the vector that Conj, called once per value on
\* the empty Vector, returns: the same Len() and the same Nth(i).
C9_NewEqualsRepeatedConj ==
    last.op = "New" =>
        LET c == VConjAll(M0, EmptyVector, Iota(last.i))
        IN  /\ c.m.err = "none"
            /\ VLen(vecs[last.res]) = VLen(c.res)
            /\ Contents(heap, arrs, vecs[last.res])
                   = Contents(c.m.heap, c.m.arrs, c.res)

\* A New of more values than a trie of one branch level holds.
C9_Witness ==
    /\ last.op = "New"
    /\ last.i > nodeWidth * nodeWidth + nodeWidth
    /\ vecs[last.res].depth >= 2

\* C10: after r := v.Conj(x), r.Nth(j) is what v.Nth(j) was, for every j in
\* [0, v.Len()).
C10_ConjKeepsPriorValues ==
    (last.op = "Conj" /\ last.err = "none") =>
        \A j \in 0 .. Len(last.pre) - 1 :
            VNth(heap, arrs, vecs[last.res], j) = last.pre[j + 1]

\* A Conj that pushed the full tail into the trie and added a root level
\* over a root that was a branch.
C10_Witness ==
    /\ last.op = "Conj"
    /\ last.err = "none"
    /\ vecs[last.h].tail.len = nodeWidth
    /\ vecs[last.h].depth >= 1
    /\ vecs[last.res].depth = vecs[last.h].depth + 1

\* C11: after r := v.Assoc(i, x) with i in [0, v.Len()), r.Len() is v.Len()
\* and r.Nth(j) is what v.Nth(j) was for every j other than i.
C11_AssocChangesOnePosition ==
    (last.op = "Assoc" /\ last.err = "none") =>
        /\ VLen(vecs[last.res]) = Len(last.pre)
        /\ \A j \in 0 .. Len(last.pre) - 1 :
               j # last.i => VNth(heap, arrs, vecs[last.res], j) = last.pre[j + 1]

\* An Assoc in a leaf of a trie with branches, on a vector that holds other
\* values in the same leaf, in other leaves and in the tail.
C11_Witness ==
    /\ last.op = "Assoc"
    /\ last.err = "none"
    /\ vecs[last.h].depth >= 1
    /\ ~indexInTail(last.i, vecs[last.h].count, vecs[last.h].tail)
    /\ vecs[last.h].count - vecs[last.h].tail.len >= 2 * nodeWidth
    /\ vecs[last.h].tail.len >= 1

RECURSIVE Ancestors(_)
\* The positions of the Vectors that vecs[k] was derived from, k included.
Ancestors(k) == IF k = 0 THEN {} ELSE {k} \cup Ancestors(made[k].from)

\* C12: with v2 := v1.Assoc(i, x), a call on v2, on a Vector derived from v2
\* or on a TransientVector of a lineage made from one of them leaves v1
\* reading as before the call: the same Nth(j) for every j in [0, v1.Len()).
C12_AssocResultNeverChangesOriginal ==
    \A k \in Ancestors(Receiver(last)) :
        made[k].op = "Assoc" =>
            Reads(made[k].from) = last.all[made[k].from]

\* A Conj on the result of an Assoc that stored its leaf in a node of the
\* original's trie.
C12_Witness ==
    /\ last.op = "Conj"
    /\ last.err = "none"
    /\ made[last.h].op = "Assoc"
    /\ last.w \cap NodesOf(heap, vecs[made[last.h].from]) # {}

\* The indices a read is tried with: every valid one and two on either side.
ReadIndices(count) == -2 .. count + 1

\* C13: on every Vector and every TransientVector, Nth(i) returns a value for
\* i in [0, count) and panics out of range for every other i, the panic
\* carrying i and count; Peek() returns a value unless the vector is empty,
\* and on an empty one panics out of range like Nth(-1).
C13_ReadsFailExactlyOutOfRange ==
    /\ \A k \in 1 .. Len(vecs) :
           LET v == vecs[k] IN
           /\ \A i \in ReadIndices(v.count) :
                  IF 0 <= i /\ i < v.count
                  THEN VNth(heap, arrs, v, i).err = "none"
                  ELSE VNth(heap, arrs, v, i) = FailOutOfRange(i, v.count)
           /\ IF v.count = 0
              THEN VPeek(heap, arrs, v) = FailOutOfRange(-1, 0)
              ELSE VPeek(heap, arrs, v).err = "none"
    /\ \A h \in 1 .. Len(tvs) :
           LET t == tvs[h] IN
           /\ \A i \in ReadIndices(t.count) :
                  IF 0 <= i /\ i < t.count
                  THEN TNth(heap, arrs, t, i).err = "none"
                  ELSE TNth(heap, arrs, t, i) = FailOutOfRange(i, t.count)
           /\ IF t.count = 0
              THEN TPeek(heap, arrs, t) = FailOutOfRange(-1, 0)
              ELSE TPeek(heap, arrs, t).err = "none"

\* An empty Vector, on which every index and Peek fail, held together with a
\* TransientVector that has values in its trie and in its tail.
C13_Witness ==
    /\ \E k \in 1 .. Len(vecs) :
           /\ vecs[k].count = 0
           /\ VNth(heap, arrs, vecs[k], 0).err = "IndexOutOfRange"
           /\ VPeek(heap, arrs, vecs[k]).err = "IndexOutOfRange"
    /\ \E h \in 1 .. Len(tvs) :
           /\ tvs[h].count > nodeWidth
           /\ TNth(heap, arrs, tvs[h], tvs[h].count).err = "IndexOutOfRange"
           /\ TNth(heap, arrs, tvs[h], -1).err = "IndexOutOfRange"

\* C14: Assoc(i, x) on a Vector and on a TransientVector of count n returns
\* a vector for i in [0, n) and, for every other i, panics out of range with
\* i and n and returns nothing; on an empty vector that is every i.
C14_AssocFailsExactlyOutOfRange ==
    /\ last.op \in {"Assoc", "TAssoc"} =>
           LET n == IF last.op = "Assoc" THEN vecs[last.h].count ELSE tvs[last.h].count
           IN  IF 0 <= last.i /\ last.i < n
               THEN last.err = "none" /\ last.res # 0
               ELSE /\ last.err = "IndexOutOfRange"
                    /\ last.pv = OutOfRange(last.i, n)
                    /\ last.res = 0
                    /\ Len(vecs) = Len(last.all)
    /\ \A k \in 1 .. Len(vecs), x \in Vals :
           \A i \in ReadIndices(vecs[k].count) \ (0 .. vecs[k].count - 1) :
               LET r == VAssoc(M0, vecs[k], i, x)
               IN  r.m.err = "IndexOutOfRange" /\ r.m.pv = OutOfRange(i, vecs[k].count)
    /\ \A h \in 1 .. Len(tvs), x \in Vals :
           \A i \in ReadIndices(tvs[h].count) \ (0 .. tvs[h].count - 1) :
               LET r == TAssoc(M0, tvs[h], i, x)
               IN  r.m.err = "IndexOutOfRange" /\ r.m.pv = OutOfRange(i, tvs[h].count)

\* An Assoc at index 0 of an empty TransientVector, which panicked.
C14_Witness ==
    /\ last.op = "TAssoc"
    /\ tvs[last.h].count = 0
    /\ last.i = 0
    /\ last.err = "IndexOutOfRange"
    /\ last.pv = OutOfRange(0, 0)

\* The memory a call wrote that existed before the call.
SharedWrites(m) ==
    [slots |-> {e \in m.ws : e[1] <= Len(heap)},
     cells |-> {e \in m.wc : e[1] <= Len(arrs)}]

RECURSIVE PathSlots(_, _, _, _)
\* The child slots the loop of findValues reads.
PathSlots(h, walk, level, index) ==
    IF level = 0 \/ walk <= 0 \/ h[walk].nodes = << >> THEN {}
    ELSE {<< walk, indexAt(level, index) >>}
         \cup PathSlots(h, h[walk].nodes[indexAt(level, index) + 1], level - 1, index)

\* The memory Nth(index) reads of v: child slots and the cell of the value.
NthReads(v, index) ==
    LET f == findValues(heap, v.count, v.depth, v.root, v.tail, index)
    IN  [slots |-> IF indexInTail(index, v.count, v.tail) THEN {}
                   ELSE PathSlots(heap, v.root, v.depth, index),
         cells |-> IF f.err = "none" THEN {<< f.s.arr, indexAt(0, index) >>} ELSE {}]

\* What each call that a goroutine may be making on a held Vector writes.
WritingCalls ==
    {SharedWrites(VConj(M0, vecs[k], x).m) : k \in 1 .. Len(vecs), x \in Vals}
    \cup UNION {{SharedWrites(VAssoc(M0, vecs[k], i, x).m) : i \in 0 .. vecs[k].count - 1} :
                  k \in 1 .. Len(vecs), x \in Vals}
    \cup {SharedWrites(Transient(M0, vecs[k]).m) : k \in 1 .. Len(vecs)}

\* What each Nth or Peek that a goroutine may be making on a held Vector reads.
ReadingCalls ==
    UNION {{NthReads(vecs[k], i) : i \in 0 .. vecs[k].count - 1} : k \in 1 .. Len(vecs)}

\* C15: goroutines calling Len, Nth, Peek, Assoc, Conj and Transient on the
\* Vectors held, in any interleaving: no two calls that may run at once (the
\* same call made by two goroutines included) write the same child slot or
\* cell, none writes a slot or cell that an Nth or Peek reads, and every
\* Vector reads as it did when it was returned.
C15_SharedVectorsAreRaceFree ==
    /\ \A a \in WritingCalls, b \in WritingCalls :
           a.slots \cap b.slots = {} /\ a.cells \cap b.cells = {}
    /\ \A a \in WritingCalls, b \in ReadingCalls :
           a.slots \cap b.slots = {} /\ a.cells \cap b.cells = {}
    /\ \A k \in 1 .. Len(vecs) : Reads(k) = born[k]

\* C16: Len, Nth and Peek of every TransientVector that is not marked
\* invalid pass ensureValid and return what the same reads return on the
\* Vector with the same contents (the one Persistent makes of it), for the
\* indices in range and out of range alike.
C16_BuilderReadsAsVector ==
    \A h \in 1 .. Len(tvs) :
        ~tvs[h].invalid =>
            LET t == tvs[h]
                p == Persistent(M0, t)
            IN  /\ ensureValid(t) = "none"
                /\ p.m.err = "none"
                /\ TLen(t) = Ok(VLen(p.res))
                /\ \A i \in ReadIndices(t.count) :
                       TNth(heap, arrs, t, i) = VNth(p.m.heap, p.m.arrs, p.res, i)
                /\ TPeek(heap, arrs, t) = VPeek(p.m.heap, p.m.arrs, p.res)

\* A TransientVector that no call has been made on yet, with values behind
\* branches of its trie and in its tail.
C16_Witness ==
    \E h \in (1 .. Len(tvs)) \ consumed :
        /\ ~tvs[h].invalid
        /\ tvs[h].depth >= 1
        /\ tvs[h].tail.len >= 1
        /\ TNth(heap, arrs, tvs[h], 0).err = "none"
        /\ TPeek(heap, arrs, tvs[h]).err = "none"

\* C17: String() of a Vector is "[", then the renderings of Nth(0), ...,
\* Nth(Len() - 1) in index order with exactly one space between neighbours,
\* then "]"; for the empty Vector it is "[]".
C17_StringIsBracketedList ==
    \A k \in 1 .. Len(vecs) :
        LET v == vecs[k]
            n == VLen(v)
            body == [p \in 1 .. 2 * n - 1 |->
                        IF p % 2 = 1
                        THEN ToString(VNth(heap, arrs, v, (p - 1) \div 2).val)
                        ELSE " "]
        IN  /\ VString(heap, arrs, v) = Ok(<< "[" >> \o body \o << "]" >>)
            /\ n = 0 => VString(heap, arrs, v) = Ok(<< "[", "]" >>)

\* An empty Vector and a Vector of three values or more, both rendered.
C17_Witness ==
    /\ \E k \in 1 .. Len(vecs) :
           vecs[k].count = 0 /\ VString(heap, arrs, vecs[k]).err = "none"
    /\ \E k \in 1 .. Len(vecs) :
           /\ vecs[k].count >= 3
           /\ Len(VString(heap, arrs, vecs[k]).val) = 2 * vecs[k].count + 1

\* C18: lists.New(vals...) has Len() = len(vals), and First() of the list,
\* of its Rest(), of the Rest() of that, ... are vals[0], vals[1], ... in the
\* order given.
C18_ListNewKeepsOrder ==
    \A k \in 1 .. Len(lists) :
        lmade[k].op = "New" =>
            /\ ListLen(lists[k]) = Len(lmade[k].vals)
            /\ Firsts(lheap, lists[k], Len(lmade[k].vals)) = lmade[k].vals

\* A New of three values of which the first and the last differ.
C18_Witness ==
    \E k \in 1 .. Len(lists) :
        /\ lmade[k].op = "New"
        /\ Len(lmade[k].vals) = 3
        /\ lmade[k].vals[1] # lmade[k].vals[3]
        /\ ListFirst(lists[k]) = lmade[k].vals[1]

\* C19: r := l.Conj(x) has First() = x, Len() = l.Len() + 1 and a Rest() that
\* is l (the same struct, and Equal to l); every list, l included, gives the
\* values it gave when it was returned, so two lists conjoined onto the same
\* l both end in l's values.
C19_ListConjPrependsAndKeeps ==
    /\ \A k \in 1 .. Len(lists) :
           lmade[k].op = "Conj" =>
               LET l == lists[lmade[k].from]
                   r == lists[k]
               IN  /\ ListFirst(r) = lmade[k].x
                   /\ ListLen(r) = ListLen(l) + 1
                   /\ ListRest(lheap, r) = [err |-> "none", res |-> l]
                   /\ ListEqual(lheap, ListRest(lheap, r).res, l)
                   /\ Firsts(lheap, r, r.count)
                          = << lmade[k].x >> \o Firsts(lheap, l, l.count)
    /\ \A k \in 1 .. Len(lists) :
           Firsts(lheap, lists[k], lists[k].count) = lmade[k].born

\* Two lists conjoined with different values onto the same non-empty list.
C19_Witness ==
    \E k1 \in 1 .. Len(lists), k2 \in 1 .. Len(lists) :
        /\ lmade[k1].op = "Conj"
        /\ lmade[k2].op = "Conj"
        /\ lmade[k1].from = lmade[k2].from
        /\ lmade[k1].x # lmade[k2].x
        /\ lists[lmade[k1].from].count >= 2

RECURSIVE SumOver(_, _, _, _)
RECURSIVE Stored(_, _, _)
\* The number of values in the leaves under the node ref, `level` levels down.
Stored(h, ref, level) ==
    IF ref = 0 THEN 0
    ELSE IF level = 0 THEN h[ref].values.len
    ELSE SumOver(h, h[ref].nodes, Len(h[ref].nodes), level - 1)

\* The sum of Stored over the children in slots 1..n of a node.
SumOver(h, children, n, level) ==
    IF n = 0 THEN 0
    ELSE Stored(h, children[n], level) + SumOver(h, children, n - 1, level)

\* The vectors the program holds: Vectors and TransientVectors.
Held == {vecs[k] : k \in 1 .. Len(vecs)} \cup {tvs[h] : h \in 1 .. Len(tvs)}

\* count - len(tail)
InTrie(v) == v.count - v.tail.len

\* C20: in every Vector and TransientVector held, count - len(tail) is the
\* number of values stored in the leaves of the trie, is a multiple of
\* nodeWidth (or zero), and is at most nodeWidth to the power depth + 1.
C20_TrieHoldsCountMinusTail ==
    \A v \in Held :
        /\ InTrie(v) = Stored(heap, v.root, v.depth)
        /\ InTrie(v) % nodeWidth = 0
        /\ InTrie(v) <= Pow2(nodeBits * (v.depth + 1))

\* C21: in every Vector and TransientVector held, the tail has at most
\* nodeWidth values, and it is empty only when the vector is empty.
C21_TailBetweenOneAndWidth ==
    \A v \in Held :
        /\ v.tail.len <= nodeWidth
        /\ v.tail.len = 0 => v.count = 0
        /\ v.count > 0 => v.tail.len >= 1

\* A TransientVector Conj on a full tail: the tail went into the trie and the
\* result has a tail of one value.
C21_Witness ==
    /\ last.op = "TConj"
    /\ last.err = "none"
    /\ tvs[last.h].tail.len = nodeWidth
    /\ tvs[last.res].tail.len = 1
    /\ tvs[last.res].depth >= 1

\* nodeWidth to the power n, for a digit of `bits` bits.
WidthPow(bits, n) == Pow2(bits * n)

\* C22: a Conj adds one level to the trie exactly when the tail was full and
\* the trie held nodeWidth^(depth+1) values, and never more than one level;
\* and on a full tail isDeepEnoughToAppend(depth, count) is true exactly when
\* count <= nodeWidth^(depth+1).
C22_DepthGrowsExactlyWhenTrieIsFull ==
    LET W == Pow2(shape.bits) IN
    /\ shape.depth \in {shape.pdepth, shape.pdepth + 1}
    /\ shape.depth = shape.pdepth + 1
           <=> /\ shape.ptail = W
               /\ shape.pcount - shape.ptail = WidthPow(shape.bits, shape.pdepth + 1)
    /\ shape.tail = W =>
           (isDeepEnoughToAppendAt(shape.bits, shape.depth, shape.count)
               <=> shape.count <= WidthPow(shape.bits, shape.depth + 1))

RECURSIVE PathNodes(_, _, _, _)
\* The nodes on the way from the node walk, `level` levels down, to the leaf
\* of index.
PathNodes(h, walk, level, index) ==
    IF walk = 0 THEN {}
    ELSE IF level = 0 \/ h[walk].nodes = << >> THEN {walk}
    ELSE {walk} \cup PathNodes(h, h[walk].nodes[indexAt(level, index) + 1], level - 1, index)

\* C23: after r := v.Conj(x) on a full tail, every node on the path from
\* r's root to the leaf made of v's tail was allocated by the call, and every
\* other node of r existed before the call.
C23_ConjPathIsFresh ==
    (last.op = "Conj" /\ last.err = "none" /\ vecs[last.h].tail.len = nodeWidth) =>
        LET v == vecs[last.h]
            r == vecs[last.res]
            path == PathNodes(heap, r.root, r.depth, v.count - 1)
        IN  /\ \A n \in path : n > last.hl
            /\ \A n \in NodesOf(heap, r) \ path : n <= last.hl

RECURSIVE PathSeq(_, _, _, _)
\* The nodes from the node walk down to the leaf of index, root first.
PathSeq(h, walk, level, index) ==
    IF walk = 0 THEN << >>
    ELSE IF level = 0 \/ h[walk].nodes = << >> THEN << walk >>
    ELSE << walk >> \o PathSeq(h, h[walk].nodes[indexAt(level, index) + 1], level - 1, index)

\* C24: r := v.Assoc(i, x) with i in the trie allocates depth + 1 nodes, the
\* path from r's root to the leaf of i; each is tagged shared and is a copy
\* of v's node at that level but for the child slot on the path, or in the
\* leaf (whose values are a new array) the value at i; every other child
\* slot holds the same node as in v.  With i in the tail, no node is
\* allocated and r's root is v's root.
C24_AssocClonesOnlyThePath ==
    (last.op = "Assoc" /\ last.err = "none") =>
        LET v == vecs[last.h]
            r == vecs[last.res]
            i == last.i
            po == PathSeq(heap, v.root, v.depth, i)
            pn == PathSeq(heap, r.root, r.depth, i)
        IN  IF indexInTail(i, v.count, v.tail)
            THEN Len(heap) = last.hl /\ r.root = v.root
            ELSE /\ Len(heap) = last.hl + v.depth + 1
                 /\ Len(pn) = v.depth + 1
                 /\ Len(po) = v.depth + 1
                 /\ {pn[j] : j \in 1 .. Len(pn)} = last.hl + 1 .. Len(heap)
                 /\ \A j \in 1 .. Len(pn) : heap[pn[j]].id = persistent
                 /\ \A j \in 1 .. v.depth :
                        /\ heap[pn[j]].values = heap[po[j]].values
                        /\ Len(heap[pn[j]].nodes) = Len(heap[po[j]].nodes)
                        /\ \A sl \in 1 .. Len(heap[pn[j]].nodes) :
                               IF sl - 1 = indexAt(v.depth - j + 1, i)
                               THEN heap[pn[j]].nodes[sl] = pn[j + 1]
                               ELSE heap[pn[j]].nodes[sl] = heap[po[j]].nodes[sl]
                 /\ LET ln == heap[pn[v.depth + 1]]
                        lo == heap[po[v.depth + 1]]
                    IN  /\ ln.nodes = lo.nodes
                        /\ ln.values.len = lo.values.len
                        /\ ln.values.arr # lo.values.arr
                        /\ \A c \in 1 .. ln.values.len :
                               arrs[ln.values.arr][c]
                                   = IF c - 1 = indexAt(0, i) THEN last.x
                                     ELSE arrs[lo.values.arr][c]

\* An Assoc in a trie of two branch levels, which allocated three nodes.
C24_Witness ==
    /\ last.op = "Assoc"
    /\ last.err = "none"
    /\ vecs[last.h].depth = 2
    /\ ~indexInTail(last.i, vecs[last.h].count, vecs[last.h].tail)
    /\ Len(heap) = last.hl + 3

\* C25: every node reachable from the Vector that Persistent returns is
\* tagged shared, and its tail is a copy of the TransientVector's tail in an
\* array of its own.
C25_FrozenVectorIsAllShared ==
    (last.op = "Persistent" /\ last.err = "none") =>
        LET t == tvs[last.h]
            r == vecs[last.res]
        IN  /\ \A n \in NodesOf(heap, r) : heap[n].id = persistent
            /\ r.tail.len = t.tail.len
            /\ \A c \in 1 .. r.tail.len : arrs[r.tail.arr][c] = arrs[t.tail.arr][c]
            /\ r.tail.len > 0 => r.tail.arr # t.tail.arr

\* The nodes that existed before the last call and of which the call wrote a
\* child slot or a cell of the values array.
WrittenInPlace ==
    {n \in 1 .. last.hl :
        n \in last.w \/ (heap[n].values.arr # 0 /\ heap[n].values.arr \in last.wa)}

\* C26: every node that a Conj or an Assoc of a TransientVector wrote a child
\* slot or a value slot of, and that the call did not allocate itself, is
\* tagged with the id of that TransientVector.
C26_BuilderWritesOnlyOwnNodes ==
    last.op \in {"TConj", "TAssoc"} =>
        \A n \in WrittenInPlace : heap[n].id = tvs[last.h].id

\* An Assoc of a TransientVector in the trie that wrote the value into a leaf
\* it owned before the call.
C26_Witness ==
    /\ last.op = "TAssoc"
    /\ last.err = "none"
    /\ ~indexInTail(last.i, tvs[last.h].count, tvs[last.h].tail)
    /\ Len(heap) = last.hl
    /\ \E n \in WrittenInPlace : heap[n].nodes = << >>

\* The TransientVector values that are live: not marked invalid, and no
\* Conj, Assoc or Persistent has been called on them.
Live == {h \in 1 .. Len(tvs) : ~tvs[h].invalid /\ h \notin consumed}

\* C27: a node tagged with the id of a TransientVector is reachable from at
\* most one live TransientVector value, and that value carries the id.
C27_OwnedNodeHasOneLiveOwner ==
    \A n \in 1 .. Len(heap) :
        heap[n].id # persistent =>
            LET R == {h \in Live : n \in NodesOf(heap, tvs[h])}
            IN  /\ Cardinality(R) <= 1
                /\ \A h \in R : tvs[h].id = heap[n].id

\* C28: the TransientVector that Transient returns carries an id that is not
\* the shared one, is the id of no other TransientVector value, and is the
\* tag of no node on the heap: it owns no node.
C28_TransientMintsFreshId ==
    (last.op = "Transient" /\ last.err = "none") =>
        LET t == tvs[last.res]
        IN  /\ t.id # persistent
            /\ \A h \in 1 .. Len(tvs) : h # last.res => tvs[h].id # t.id
            /\ \A n \in 1 .. Len(heap) : heap[n].id # t.id

\* A Transient made while another TransientVector is held that owns nodes of
\* its own.
C28_Witness ==
    /\ last.op = "Transient"
    /\ last.err = "none"
    /\ \E h \in 1 .. Len(tvs) :
           /\ h # last.res
           /\ \E n \in NodesOf(heap, tvs[h]) : heap[n].id = tvs[h].id

RECURSIVE ApplyPersistent(_, _, _)
\* The calls of a log made one after the other with Vector.Conj and
\* Vector.Assoc, from the Vector v on, as [m, res].
ApplyPersistent(m, v, log) ==
    IF log = << >> \/ m.err # "none" THEN [m |-> m, res |-> v]
    ELSE LET e == Head(log)
             c == IF e.op = "TConj" THEN VConj(m, v, e.x) ELSE VAssoc(m, v, e.i, e.x)
         IN  ApplyPersistent(c.m, c.res, Tail(log))

\* C29: the Vector that Persistent returns has the count, the depth and the
\* values of the Vector that the calls made on the TransientVector since
\* Transient give when they are made with Vector.Conj and Vector.Assoc on the
\* Vector that Transient was called on.
C29_BuilderEqualsPersistentSequence ==
    (last.op = "Persistent" /\ last.err = "none") =>
        LET r == vecs[last.res]
            c == ApplyPersistent(M0, vecs[torigin[last.h]], tlog[last.h])
        IN  /\ c.m.err = "none"
            /\ r.count = c.res.count
            /\ r.depth = c.res.depth
            /\ Reads(last.res) = Contents(c.m.heap, c.m.arrs, c.res)

\* A Persistent after a Conj that pushed the tail into the trie and an Assoc,
\* on a TransientVector of a Vector that has a trie.
C29_Witness ==
    /\ last.op = "Persistent"
    /\ last.err = "none"
    /\ vecs[torigin[last.h]].root # 0
    /\ \E a, b \in 1 .. Len(tlog[last.h]) :
           /\ tlog[last.h][a].op = "TConj"
           /\ tlog[last.h][b].op = "TAssoc"
    /\ vecs[last.res].count - vecs[last.res].tail.len
           > vecs[torigin[last.h]].count - vecs[torigin[last.h]].tail.len

\* The last call is a Conj or an Assoc of a TransientVector that walked the
\* trie and met only nodes tagged with the id of the TransientVector.
WalkedOwned ==
    /\ last.op \in {"TConj", "TAssoc"}
    /\ last.err = "none"
    /\ IF last.op = "TAssoc"
       THEN ~indexInTail(last.i, tvs[last.h].count, tvs[last.h].tail)
       ELSE tvs[last.h].tail.len = nodeWidth
    /\ \A k \in 1 .. Len(last.path) : heap[last.path[k]].id = tvs[last.h].id

\* The path of the last call in the TransientVector it returned: to the leaf
\* of the index of Assoc, to the leaf that Conj made of the tail.
PathAfter ==
    LET t == tvs[last.h]
        r == tvs[last.res]
    IN  Met(heap, r.root, r.depth, IF last.op = "TAssoc" THEN last.i ELSE t.count - 1, 0)

\* The nodes the last call allocated are the nodes of the path after the
\* call that follow the nodes the walk met, which are still its first nodes.
OnlyFillsEmptySlots ==
    /\ Len(last.path) <= Len(PathAfter)
    /\ SubSeq(PathAfter, 1, Len(last.path)) = last.path
    /\ Len(heap) - last.hl = Len(PathAfter) - Len(last.path)
    /\ \A k \in Len(last.path) + 1 .. Len(PathAfter) : PathAfter[k] > last.hl

\* C30 as stated: a Conj or an Assoc of a TransientVector whose walk met only
\* nodes tagged with its id returns a TransientVector with the same root;
\* Assoc allocates no node, and Conj only the leaf and the nodes of the
\* slots that were empty on the path under that root.
C30_OwnedWalkKeepsRoot ==
    WalkedOwned =>
        LET t == tvs[last.h]
            r == tvs[last.res]
        IN  /\ t.root # 0 => r.root = t.root
            /\ last.op = "TAssoc" => Len(heap) = last.hl
            /\ OnlyFillsEmptySlots

\* C30, amended: the same, but that a Conj that deepens the trie returns a
\* TransientVector whose root is the node the call allocated for the new
\* level, tagged with its id, with the old root in its first slot.
C30_OwnedWalkAllocatesNoClone ==
    WalkedOwned =>
        LET t == tvs[last.h]
            r == tvs[last.res]
        IN  /\ IF r.depth = t.depth
               THEN t.root # 0 => r.root = t.root
               ELSE /\ last.op = "TConj"
                    /\ r.depth = t.depth + 1
                    /\ r.root > last.hl
                    /\ heap[r.root].id = t.id
                    /\ heap[r.root].nodes[1] = t.root
            /\ last.op = "TAssoc" => Len(heap) = last.hl
            /\ OnlyFillsEmptySlots

\* A Conj that moved the tail into a trie whose root and path the
\* TransientVector owned before the call, without deepening it.
C30_Witness ==
    /\ WalkedOwned
    /\ last.op = "TConj"
    /\ Len(last.path) >= 1
    /\ tvs[last.res].root = tvs[last.h].root
    /\ Len(heap) > last.hl

RECURSIVE ShapeRun(_, _)
\* The shape after n more Conj: the first half of them, then the rest.
ShapeRun(sh, n) ==
    IF n = 0 THEN sh
    ELSE IF n = 1 THEN ShapeConj(sh)
    ELSE LET half == ShapeRun(sh, n \div 2)
         IN  IF half.count >= 0 THEN ShapeRun(half, n - (n \div 2)) ELSE half

\* The shape of the vector that n Conj make of the empty one.
ShapeAfter(bits, n) == ShapeRun(EmptyShape(bits), n)

\* With the digit of the source, the Conj on a vector of W*W + W values adds
\* a level to the trie.
SourceDeepensAtSquare ==
    LET W  == Pow2(sourceNodeBits)
        sh == ShapeAfter(sourceNodeBits, W * W + W)
    IN  /\ sh.tail = W
        /\ ShapeConj(sh).depth = sh.depth + 1
        /\ ShapeConj(sh).tail = 1

\* C31: r := v.Conj(x) on a v whose tail holds nodeWidth values allocates one
\* leaf, which holds the nodeWidth values of v's tail and is the leaf of
\* index v.count - 1 in r, and r's tail holds x alone; a v of nodeWidth values
\* has a tail that full; and on a v of nodeWidth * nodeWidth + nodeWidth
\* values r is one level deeper than v (also with the digit of the source).
C31_FullTailMovesIntoTrie ==
    (last.op = "Conj" /\ last.err = "none") =>
        LET v  == vecs[last.h]
            r  == vecs[last.res]
            W  == nodeWidth
            lf == Descend(heap, r.root, r.depth, v.count - 1)
        IN  /\ v.count = W => v.tail.len = W
            /\ v.tail.len = W =>
                   /\ r.count = v.count + 1
                   /\ r.tail.len = 1
                   /\ Cells(M0, r.tail) = << last.x >>
                   /\ lf > last.hl
                   /\ heap[lf].nodes = << >>
                   /\ heap[lf].values.len = W
                   /\ \A j \in 1 .. W :
                          Cells(M0, heap[lf].values)[j] = last.pre[v.count - W + j].val
                   /\ Cardinality({n \in last.hl + 1 .. Len(heap) : heap[n].nodes = << >>}) = 1
                   /\ r.depth \in {v.depth, v.depth + 1}
            /\ v.count = W * W + W =>
                   /\ v.tail.len = W
                   /\ r.depth = v.depth + 1
                   /\ SourceDeepensAtSquare

\* A Conj on a vector of nodeWidth * nodeWidth + nodeWidth values.
C31_Witness ==
    /\ last.op = "Conj"
    /\ last.err = "none"
    /\ vecs[last.h].count = nodeWidth * nodeWidth + nodeWidth
    /\ vecs[last.res].depth = vecs[last.h].depth + 1

RECURSIVE Levelled(_, _, _)
\* The nodes a walk can meet from the node ref at `level`, each with the
\* level it is met at; the walk does not go below level 0.
Levelled(h, ref, level) ==
    IF ref = 0 THEN {}
    ELSE IF level = 0 THEN {<< ref, 0 >>}
    ELSE {<< ref, level >>} \cup
         UNION {Levelled(h, h[ref].nodes[s], level - 1) : s \in 1 .. Len(h[ref].nodes)}

\* A node with a nodes slice and no values, and one with values and no nodes.
IsBranch(n) == n.nodes # << >> /\ n.values = NilSlice

IsLeaf(n) == n.nodes = << >> /\ n.values # NilSlice

\* Every Vector and TransientVector value the program holds.
Holders == {vecs[k] : k \in 1 .. Len(vecs)} \cup {tvs[h] : h \in 1 .. Len(tvs)}

\* C32: every node on the heap is a branch or a leaf and not both, and in
\* the trie of every Vector and TransientVector the nodes a walk meets at
\* level 0 are leaves and the nodes it meets above level 0 are branches.
C32_NodeIsBranchOrLeaf ==
    /\ \A n \in 1 .. Len(heap) : IsBranch(heap[n]) \/ IsLeaf(heap[n])
    /\ \A v \in Holders :
           \A p \in Levelled(heap, v.root, v.depth) :
               IF p[2] = 0 THEN IsLeaf(heap[p[1]]) ELSE IsBranch(heap[p[1]])

\* A Vector two levels deep next to a TransientVector that holds a branch
\* and a leaf tagged with its id.
C32_Witness ==
    /\ \E k \in 1 .. Len(vecs) : vecs[k].depth >= 2
    /\ \E h \in 1 .. Len(tvs) :
           \E p, q \in Levelled(heap, tvs[h].root, tvs[h].depth) :
               /\ p[2] = 0 /\ q[2] > 0
               /\ heap[p[1]].id = tvs[h].id
               /\ heap[q[1]].id = tvs[h].id

\* The slots of a node that hold a child.
Filled(n) == {s \in 1 .. Len(n.nodes) : n.nodes[s] # 0}

RECURSIVE Rightmost(_, _, _)
\* The nodes from the node ref down through the last filled slot of each.
Rightmost(h, ref, fuel) ==
    IF ref = 0 \/ fuel = 0 THEN {}
    ELSE IF Filled(h[ref]) = {} THEN {ref}
    ELSE {ref} \cup Rightmost(h, h[ref].nodes[CHOOSE s \in Filled(h[ref]) :
                                                  \A u \in Filled(h[ref]) : u <= s],
                              fuel - 1)

\* C33: in the trie of every Vector and TransientVector no nodes slice and
\* no values slice is longer than nodeWidth, every leaf holds nodeWidth
\* values, and a branch with fewer than nodeWidth children is on the path
\* from the root through the last child of every node.
C33_OnlyRightmostPathIsPartial ==
    \A v \in Holders :
        \A n \in NodesOf(heap, v) :
            /\ Len(heap[n].nodes) <= nodeWidth
            /\ heap[n].values.len <= nodeWidth
            /\ IsLeaf(heap[n]) => heap[n].values.len = nodeWidth
            /\ (IsBranch(heap[n]) /\ Cardinality(Filled(heap[n])) < nodeWidth)
                   => n \in Rightmost(heap, v.root, Len(heap))

\* A Vector whose trie has a branch with an empty slot and, off the path
\* through the last children, a branch with every slot filled.
C33_Witness ==
    \E k \in 1 .. Len(vecs) :
        \E a, b \in NodesOf(heap, vecs[k]) :
            /\ IsBranch(heap[a]) /\ Cardinality(Filled(heap[a])) < nodeWidth
            /\ IsBranch(heap[b]) /\ Cardinality(Filled(heap[b])) = nodeWidth
            /\ b \notin Rightmost(heap, vecs[k].root, Len(heap))

\* The last call was made on, or built, a TransientVector of a lineage that
\* started from the zero value.
OnZeroLineage ==
    \/ last.op = "ZeroBuild"
    \/ last.op \in BuilderOps /\ torigin[last.h] = 0

\* The Vectors, and the TransientVectors of the lineages other than line.
Others(line) ==
    {vecs[k] : k \in 1 .. Len(vecs)} \cup
    {tvs[h] : h \in {g \in 1 .. Len(tvs) : tline[g] # line}}

\* The values of the Conj calls of a log.
ConjValues(log) == [k \in 1 .. Len(log) |-> log[k].x]

\* C34: a call on a TransientVector of a lineage that started from the zero
\* value does not panic (but an Assoc out of range); its Conj and Assoc
\* write no node and no array that a Vector or a TransientVector of another
\* lineage reaches; and its Persistent after Conj calls alone returns a
\* Vector with the count, depth and values of New of the values.
C34_ZeroValueIsValidBuilder ==
    OnZeroLineage =>
        /\ (last.op = "TAssoc" => last.i \in 0 .. tvs[last.h].count - 1) => last.err = "none"
        /\ (last.op \in {"TConj", "TAssoc"} /\ last.err = "none") =>
               \A o \in Others(tline[last.h]) :
                   /\ last.w \cap NodesOf(heap, o) = {}
                   /\ last.wa \cap ArraysOf(heap, o) = {}
        /\ (last.op = "Persistent" /\ last.err = "none"
                /\ \A k \in 1 .. Len(tlog[last.h]) : tlog[last.h][k].op = "TConj") =>
               LET r == vecs[last.res]
                   n == New(M0, ConjValues(tlog[last.h]))
               IN  /\ r.count = n.res.count
                   /\ r.depth = n.res.depth
                   /\ Reads(last.res) = Contents(n.m.heap, n.m.arrs, n.res)

\* An Assoc or a Conj on a TransientVector built from the zero value that
\* wrote a node in place, while a Vector and a TransientVector of another
\* lineage hold tries.
C34_Witness ==
    /\ OnZeroLineage
    /\ last.err = "none"
    /\ last.op \in {"TConj", "TAssoc"}
    /\ WrittenInPlace # {}
    /\ \E k \in 1 .. Len(vecs) : vecs[k].root # 0
    /\ \E h \in 1 .. Len(tvs) : tline[h] # tline[last.h] /\ tvs[h].root # 0

\* C35: after an Assoc of a Vector or of a TransientVector that panicked
\* with an index out of range, the program holds the Vectors and
\* TransientVectors it held, each reads as before the call, and the call
\* wrote no child slot and no array cell and allocated nothing.  (Nth and
\* Peek are the operators VNth, VPeek, TNth and TPeek: findValues assigns to
\* nothing but its own variables.)
C35_FailedCallChangesNothing ==
    last.err = "IndexOutOfRange" =>
        /\ last.op \in {"Assoc", "TAssoc"}
        /\ last.i \notin 0 .. (IF last.op = "Assoc" THEN vecs[last.h].count
                                ELSE tvs[last.h].count) - 1
        /\ DOMAIN last.all = 1 .. Len(vecs)
        /\ DOMAIN last.tall = 1 .. Len(tvs)
        /\ \A k \in 1 .. Len(vecs) : Reads(k) = last.all[k]
        /\ \A g \in 1 .. Len(tvs) : Contents(heap, arrs, tvs[g]) = last.tall[g]
        /\ last.w = {} /\ last.wa = {}
        /\ Len(heap) = last.hl /\ Len(arrs) = last.al
        /\ \A o \in Holders : VNth(heap, arrs, o, o.count).err = "IndexOutOfRange"

\* An Assoc out of range on a TransientVector that owns nodes of its trie
\* and has values in its tail.
C35_Witness ==
    /\ last.err = "IndexOutOfRange"
    /\ last.op = "TAssoc"
    /\ tvs[last.h].tail.len > 0
    /\ \E n \in NodesOf(heap, tvs[last.h]) : heap[n].id = tvs[last.h].id

\* The walk of findValues and of Assoc for index on the vector o is safe:
\* an index in the tail is a position of the tail; for any other the walk
\* meets a node with a nodes slice at each of the o.depth levels and ends at
\* a leaf whose values have the position of the index.
WalkIsSafe(o, index) ==
    IF indexInTail(index, o.count, o.tail)
    THEN /\ indexAt(0, index) < o.tail.len
         /\ indexAt(0, index) = index - (o.count - o.tail.len)
    ELSE LET walk == Met(heap, o.root, o.depth, index, 0)
         IN  /\ Len(walk) = o.depth + 1
             /\ \A k \in 1 .. o.depth : heap[walk[k]].nodes # << >>
             /\ IsLeaf(heap[walk[o.depth + 1]])
             /\ indexAt(0, index) < heap[walk[o.depth + 1]].values.len

\* C36: for every Vector and TransientVector held and every index in
\* [0, count) the walk is safe, and Nth and Assoc with that index do not
\* panic.
C36_ValidIndexWalkIsSafe ==
    /\ \A k \in 1 .. Len(vecs) :
           \A i \in 0 .. vecs[k].count - 1 :
               /\ WalkIsSafe(vecs[k], i)
               /\ VNth(heap, arrs, vecs[k], i).err = "none"
               /\ VAssoc(M0, vecs[k], i, Zero).m.err = "none"
    /\ \A h \in 1 .. Len(tvs) :
           \A i \in 0 .. tvs[h].count - 1 :
               /\ WalkIsSafe(tvs[h], i)
               /\ TNth(heap, arrs, tvs[h], i).err = "none"
               /\ TAssoc(M0, tvs[h], i, Zero).m.err = "none"

\* A Vector three levels deep and a TransientVector with a trie.
C36_Witness ==
    /\ \E k \in 1 .. Len(vecs) : vecs[k].depth >= 2 /\ vecs[k].tail.len = nodeWidth
    /\ \E h \in 1 .. Len(tvs) : tvs[h].depth >= 1 /\ tvs[h].count > tvs[h].tail.len

\* v.Transient().Persistent() made from the Vector at position k now, as
\* [m, res].
ThawFreeze(k) ==
    LET t == Transient(M0, vecs[k])
    IN  Persistent(t.m, t.res)

\* C37: for every Vector v held, v.Transient().Persistent() does not panic
\* and returns a Vector with v's count and depth whose Nth(j) succeeds and
\* gives what v.Nth(j) gives for every j, and after it v reads as before
\* and no node or array that existed is written; the same is true of the Persistent that was called on
\* the TransientVector a Transient returned, whatever was called on other
\* values between the two.
C37_ThawFreezeIsIdentity ==
    /\ \A k \in 1 .. Len(vecs) :
           LET p == ThawFreeze(k)
           IN  /\ p.m.err = "none"
               /\ p.res.count = vecs[k].count
               /\ p.res.depth = vecs[k].depth
               /\ Contents(p.m.heap, p.m.arrs, p.res) = Reads(k)
               /\ \A j \in 1 .. vecs[k].count : Reads(k)[j].err = "none"
               /\ Contents(p.m.heap, p.m.arrs, vecs[k]) = Reads(k)
               /\ p.m.w \cap (1 .. Len(heap)) = {}
               /\ p.m.wa \cap (1 .. Len(arrs)) = {}
    /\ (last.op = "Persistent" /\ last.err = "none" /\ tlog[last.h] = << >>) =>
           LET v == vecs[torigin[last.h]]
               r == vecs[last.res]
           IN  /\ r.count = v.count
               /\ r.depth = v.depth
               /\ Reads(last.res) = Reads(torigin[last.h])
               /\ Reads(torigin[last.h]) = last.pre
               /\ \A u \in DOMAIN last.all : Reads(u) = last.all[u]

\* A Persistent called on the TransientVector that Transient returned for a
\* Vector with a trie two levels deep and a tail.
C37_Witness ==
    /\ last.op = "Persistent"
    /\ last.err = "none"
    /\ tlog[last.h] = << >>
    /\ vecs[torigin[last.h]].depth >= 1
    /\ vecs[torigin[last.h]].tail.len > 0
    /\ vecs[last.res].root # vecs[torigin[last.h]].root

====
